---- MODULE Spec2Model ----
(***************************************************************************)
(* Model of the event recommendation pipeline:                             *)
(*   database.py               setup_database (the catalog)                *)
(*   recommendation_system.py  WeatherAgent, EventAgent,                   *)
(*                             RecommendationAgent, CoordinatorAgent       *)
(* Texts are TLA+ strings built by concatenation, as the code builds them. *)
(* Python's None is the empty tuple, a present value v is <<v>>.           *)
(***************************************************************************)
EXTENDS Integers, Sequences, FiniteSets, TLC

VARIABLES catalog, pc, req, weather_data, clothing, transport, events,
          grouped_events, context, result, calls, outcome, exc

vars == <<catalog, pc, req, weather_data, clothing, transport, events,
          grouped_events, context, result, calls, outcome, exc>>

(***************************************************************************)
(* Bounds                                                                  *)
(***************************************************************************)
\* longest catalog drawn for the EventAgent specification
MaxCatalog == 2

(***************************************************************************)
(* Python values                                                           *)
(***************************************************************************)
None == <<>>
Some(v) == <<v>>

\* Python truthiness of an optional string argument (`if event_type:`)
Truthy(opt) == opt # None /\ opt[1] # ""

(***************************************************************************)
(* Text helpers                                                            *)
(***************************************************************************)
\* byte values of the characters that occur in a stored start_time
CharCode == ("0" :> 48) @@ ("1" :> 49) @@ ("2" :> 50) @@ ("3" :> 51) @@
            ("4" :> 52) @@ ("5" :> 53) @@ ("6" :> 54) @@ ("7" :> 55) @@
            ("8" :> 56) @@ ("9" :> 57) @@ (":" :> 58)

RECURSIVE TextLess(_, _)
\* SQLite's comparison of two TEXT values (BINARY collation: byte by byte,
\* a proper prefix sorts first)
TextLess(a, b) ==
    IF b = "" THEN FALSE
    ELSE IF a = "" THEN TRUE
    ELSE LET ca == CharCode[SubSeq(a, 1, 1)]
             cb == CharCode[SubSeq(b, 1, 1)]
         IN  IF ca < cb THEN TRUE
             ELSE IF ca > cb THEN FALSE
             ELSE TextLess(SubSeq(a, 2, Len(a)), SubSeq(b, 2, Len(b)))

TextGeq(a, b) == ~TextLess(a, b)

\* Python's  w in s  on strings
Contains(s, w) ==
    \E i \in 1..(Len(s) - Len(w) + 1) : SubSeq(s, i, i + Len(w) - 1) = w

StartsWith(s, p) == Len(s) >= Len(p) /\ SubSeq(s, 1, Len(p)) = p

RECURSIVE SplitColon(_, _)
\* the characters of s before the first ':'  (start_time.split(':')[0])
SplitColon(s, i) ==
    IF i > Len(s) \/ SubSeq(s, i, i) = ":" THEN SubSeq(s, 1, i - 1)
    ELSE SplitColon(s, i + 1)

RECURSIVE ParseInt(_, _)
\* Python's int() of a string of decimal digits, acc the value read so far
ParseInt(s, acc) ==
    IF s = "" THEN acc
    ELSE ParseInt(SubSeq(s, 2, Len(s)),
                  acc * 10 + (CharCode[SubSeq(s, 1, 1)] - 48))

(***************************************************************************)
(* database.py: the catalog                                                *)
(***************************************************************************)
Row(name, type, description, location, date, start_time, end_time, price_min, price_max, capacity, available_spots) ==
    [name |-> name, type |-> type, description |-> description,
     location |-> location, date |-> date, start_time |-> start_time,
     end_time |-> end_time, price_min |-> price_min, price_max |-> price_max,
     capacity |-> capacity, available_spots |-> available_spots]

\* the rows setup_database inserts, in insertion order
SampleEvents ==
    << Row("Summer Concert", "outdoor", "Live music in the park",
           "Central Park", "2026-02-15", "18:00", "22:00", 25, 50, 500, 120),
       Row("Art Exhibition", "indoor", "Modern art showcase",
           "City Gallery", "2026-02-15", "10:00", "18:00", 0, 15, 200, 200),
       Row("Morning Yoga", "outdoor", "Sunrise yoga session",
           "Beach Park", "2026-02-15", "06:00", "07:30", 10, 10, 30, 8),
       Row("Food Festival", "outdoor", "International cuisine",
           "Waterfront", "2026-02-16", "12:00", "20:00", 0, 0, 1000, 850),
       Row("Theater Show", "indoor", "Classical drama",
           "Grand Theater", "2026-02-16", "19:30", "21:30", 40, 80, 300, 45),
       Row("Cooking Workshop", "indoor", "Learn Italian cuisine",
           "Culinary Studio", "2026-02-16", "14:00", "17:00", 60, 60, 15, 3),
       Row("Night Market", "outdoor", "Street food and crafts",
           "Downtown Square", "2026-02-16", "18:00", "23:00", 0, 0, 2000, 2000),
       Row("Museum Tour", "indoor", "Guided historical tour",
           "National Museum", "2026-02-15", "11:00", "13:00", 12, 12, 50, 22) >>

\* further rows of the same schema, at the edges of the time buckets
EdgeEvents ==
    << Row("Brunch Talk", "indoor", "Late morning talk",
           "Library", "2026-02-15", "11:59", "12:45", 0, 0, 40, 0),
       Row("Harbour Walk", "outdoor", "Guided walk",
           "Harbour", "2026-02-15", "17:59", "19:00", 25, 80, 20, 4),
       Row("Dawn Run", "outdoor", "Run before sunrise",
           "Riverside", "2026-02-15", "05:30", "06:30", 10, 25, 100, 51) >>

\* INTEGER PRIMARY KEY: the n-th inserted row gets id n
WithIds(rows) == [i \in 1..Len(rows) |-> [id |-> i] @@ rows[i]]

\* setup_database: drop the table, create it, insert the sample rows
setup_database == WithIds(SampleEvents)

RowPool == {SampleEvents[i] : i \in 1..Len(SampleEvents)}
             \cup {EdgeEvents[i] : i \in 1..Len(EdgeEvents)}

\* catalogs of at most MaxCatalog rows over the pool, ids by insertion
Catalogs ==
    UNION {{WithIds(s) : s \in [1..n -> RowPool]} : n \in 0..MaxCatalog}

(***************************************************************************)
(* EventAgent                                                              *)
(***************************************************************************)
\* ' AND type = ?' when event_type is given
TypeClause(row, event_type) ==
    Truthy(event_type) => row.type = event_type[1]

\* the price filter added on `if max_price:`, which takes a budget of 0 for
\* no budget
PriceClause_truthy(row, max_price) ==
    (max_price # None /\ max_price[1] # 0) => row.price_min <= max_price[1]

\* ' AND price_min <= ?' when max_price is not None
PriceClause(row, max_price) ==
    max_price # None => row.price_min <= max_price[1]

\* the time filter with the morning bucket closed at noon
TimeClause_closed_morning(row, time_of_day) ==
    Truthy(time_of_day) =>
      CASE time_of_day[1] = "morning" ->
             TextGeq(row.start_time, "06:00")
               /\ ~TextLess("12:00", row.start_time)
        [] time_of_day[1] = "afternoon" ->
             TextGeq(row.start_time, "12:00")
               /\ TextLess(row.start_time, "18:00")
        [] time_of_day[1] = "evening" ->
             TextGeq(row.start_time, "18:00")
        [] OTHER -> TRUE

\* the time filter with the evening taking the starts before 06:00 too, as
\* the grouping does
TimeClause_evening_wraps(row, time_of_day) ==
    Truthy(time_of_day) =>
      CASE time_of_day[1] = "morning" ->
             TextGeq(row.start_time, "06:00")
               /\ TextLess(row.start_time, "12:00")
        [] time_of_day[1] = "afternoon" ->
             TextGeq(row.start_time, "12:00")
               /\ TextLess(row.start_time, "18:00")
        [] time_of_day[1] = "evening" ->
             TextGeq(row.start_time, "18:00")
               \/ TextLess(row.start_time, "06:00")
        [] OTHER -> TRUE

\* the time filter with a value that is not one of the three names matching
\* no row
TimeClause_unknown_matches_nothing(row, time_of_day) ==
    Truthy(time_of_day) =>
      CASE time_of_day[1] = "morning" ->
             TextGeq(row.start_time, "06:00")
               /\ TextLess(row.start_time, "12:00")
        [] time_of_day[1] = "afternoon" ->
             TextGeq(row.start_time, "12:00")
               /\ TextLess(row.start_time, "18:00")
        [] time_of_day[1] = "evening" ->
             TextGeq(row.start_time, "18:00")
        [] OTHER -> FALSE

\* the start_time comparisons added for time_of_day; none for a value that
\* is not one of the three names
TimeClause(row, time_of_day) ==
    Truthy(time_of_day) =>
      CASE time_of_day[1] = "morning" ->
             TextGeq(row.start_time, "06:00")
               /\ TextLess(row.start_time, "12:00")
        [] time_of_day[1] = "afternoon" ->
             TextGeq(row.start_time, "12:00")
               /\ TextLess(row.start_time, "18:00")
        [] time_of_day[1] = "evening" ->
             TextGeq(row.start_time, "18:00")
        [] OTHER -> TRUE

\* the filters joined by OR instead of AND
WhereClause_or(row, date, event_type, time_of_day, max_price) ==
    /\ row.date = date
    /\ \/ Truthy(event_type) /\ TypeClause(row, event_type)
       \/ max_price # None /\ PriceClause(row, max_price)
       \/ Truthy(time_of_day) /\ TimeClause(row, time_of_day)
       \/ ~Truthy(event_type) /\ max_price = None /\ ~Truthy(time_of_day)

\* the WHERE clause get_events builds, applied to one row
WhereClause(row, date, event_type, time_of_day, max_price) ==
    /\ row.date = date
    /\ TypeClause(row, event_type)
    /\ PriceClause(row, max_price)
    /\ TimeClause(row, time_of_day)

\* c.execute(query, params); c.fetchall(): the table scan, in rowid order
get_events(cat, date, event_type, time_of_day, max_price) ==
    SelectSeq(cat, LAMBDA row :
                WhereClause(row, date, event_type, time_of_day, max_price))

Hour(event) == ParseInt(SplitColon(event.start_time, 1), 0)

\* the bucket choice with `hour < 12` for the morning test, which takes the
\* hours before 6 for morning
BucketOf_before_noon(event) ==
    IF Hour(event) < 12 THEN "morning"
    ELSE IF 12 <= Hour(event) /\ Hour(event) < 18 THEN "afternoon"
    ELSE "evening"

\* the bucket group_events_by_time appends an event to
BucketOf(event) ==
    IF 6 <= Hour(event) /\ Hour(event) < 12 THEN "morning"
    ELSE IF 12 <= Hour(event) /\ Hour(event) < 18 THEN "afternoon"
    ELSE "evening"

group_events_by_time(evs) ==
    [morning   |-> SelectSeq(evs, LAMBDA e : BucketOf(e) = "morning"),
     afternoon |-> SelectSeq(evs, LAMBDA e : BucketOf(e) = "afternoon"),
     evening   |-> SelectSeq(evs, LAMBDA e : BucketOf(e) = "evening")]

(***************************************************************************)
(* WeatherAgent                                                            *)
(***************************************************************************)
UpperToLower == ("A" :> "a") @@ ("B" :> "b") @@ ("C" :> "c") @@ ("D" :> "d") @@
                ("E" :> "e") @@ ("F" :> "f") @@ ("G" :> "g") @@ ("H" :> "h") @@
                ("I" :> "i") @@ ("J" :> "j") @@ ("K" :> "k") @@ ("L" :> "l") @@
                ("M" :> "m") @@ ("N" :> "n") @@ ("O" :> "o") @@ ("P" :> "p") @@
                ("Q" :> "q") @@ ("R" :> "r") @@ ("S" :> "s") @@ ("T" :> "t") @@
                ("U" :> "u") @@ ("V" :> "v") @@ ("W" :> "w") @@ ("X" :> "x") @@
                ("Y" :> "y") @@ ("Z" :> "z")

RECURSIVE Lower(_)
\* str.lower()
Lower(s) ==
    IF s = "" THEN ""
    ELSE LET c == SubSeq(s, 1, 1)
         IN  (IF c \in DOMAIN UpperToLower THEN UpperToLower[c] ELSE c)
               \o Lower(SubSeq(s, 2, Len(s)))

ContainsAny(s, words) == \E w \in words : Contains(s, w)

\* the clothing advice with the two condition tests made one after the other
get_clothing_suggestion_both(temperature, condition) ==
    LET tier == IF temperature < 10
                  THEN <<"heavy jacket or coat", "warm layers", "scarf and gloves">>
                ELSE IF temperature < 15
                  THEN <<"light jacket or sweater", "long sleeves">>
                ELSE IF temperature < 25
                  THEN <<"light clothing", "comfortable shirt or t-shirt">>
                ELSE <<"light, breathable clothing", "sunscreen and hat">>
        condition_lower == Lower(condition)
    IN  tier
          \o (IF ContainsAny(condition_lower, {"rain", "drizzle", "shower"})
                THEN <<"umbrella or raincoat", "waterproof shoes">> ELSE <<>>)
          \o (IF Contains(condition_lower, "sun") \/ Contains(condition_lower, "clear")
                THEN <<"sunglasses">> ELSE <<>>)

get_clothing_suggestion(temperature, condition) ==
    LET tier == IF temperature < 10
                  THEN <<"heavy jacket or coat", "warm layers", "scarf and gloves">>
                ELSE IF temperature < 15
                  THEN <<"light jacket or sweater", "long sleeves">>
                ELSE IF temperature < 25
                  THEN <<"light clothing", "comfortable shirt or t-shirt">>
                ELSE <<"light, breathable clothing", "sunscreen and hat">>
        condition_lower == Lower(condition)
    IN  IF ContainsAny(condition_lower, {"rain", "drizzle", "shower"})
          THEN tier \o <<"umbrella or raincoat", "waterproof shoes">>
        ELSE IF Contains(condition_lower, "sun") \/ Contains(condition_lower, "clear")
          THEN tier \o <<"sunglasses">>
        ELSE tier

\* the transport advice with the heat test taken from 30 degrees on
get_transport_suggestion_from_30(temperature, condition) ==
    LET condition_lower == Lower(condition)
    IN  IF ContainsAny(condition_lower, {"rain", "storm", "heavy"})
          THEN "Use covered transport (taxi, car, or covered walkways). Avoid motorcycles and long walks."
        ELSE IF ContainsAny(condition_lower, {"hot", "sun"}) /\ temperature >= 30
          THEN "Use air-conditioned transport when possible. Stay hydrated if walking."
        ELSE IF temperature < 15
          THEN "Dress warmly if walking or using public transport. Consider warmer transport options."
        ELSE "Weather is pleasant for walking or any form of transport."

get_transport_suggestion(temperature, condition) ==
    LET condition_lower == Lower(condition)
    IN  IF ContainsAny(condition_lower, {"rain", "storm", "heavy"})
          THEN "Use covered transport (taxi, car, or covered walkways). Avoid motorcycles and long walks."
        ELSE IF ContainsAny(condition_lower, {"hot", "sun"}) /\ temperature > 30
          THEN "Use air-conditioned transport when possible. Stay hydrated if walking."
        ELSE IF temperature < 15
          THEN "Dress warmly if walking or using public transport. Consider warmer transport options."
        ELSE "Weather is pleasant for walking or any form of transport."

(***************************************************************************)
(* RecommendationAgent: rendering.  Emoji and box-drawing characters are   *)
(* written as ASCII names between colons or as ASCII rules.                *)
(***************************************************************************)
\* the icon choice with the cloudy test ahead of the partly cloudy one
get_weather_icon_cloudy_first(condition, temperature) ==
    LET condition_lower == Lower(condition)
    IN  IF Contains(condition_lower, "sun") \/ Contains(condition_lower, "clear")
          THEN ":sun:"
        ELSE IF Contains(condition_lower, "cloudy") \/ Contains(condition_lower, "overcast")
          THEN ":cloud:"
        ELSE IF Contains(condition_lower, "partly cloudy")
                  \/ Contains(condition_lower, "partly cloud")
          THEN ":sun_behind_cloud:"
        ELSE IF Contains(condition_lower, "rain") \/ Contains(condition_lower, "drizzle")
          THEN ":rain_cloud:"
        ELSE IF Contains(condition_lower, "storm") \/ Contains(condition_lower, "thunder")
          THEN ":thunder_cloud:"
        ELSE IF Contains(condition_lower, "snow")
          THEN ":snowflake:"
        ELSE IF Contains(condition_lower, "fog") \/ Contains(condition_lower, "mist")
          THEN ":fog:"
        ELSE ":sun_small_cloud:"

get_weather_icon(condition, temperature) ==
    LET condition_lower == Lower(condition)
    IN  IF Contains(condition_lower, "sun") \/ Contains(condition_lower, "clear")
          THEN ":sun:"
        ELSE IF Contains(condition_lower, "partly cloudy")
                  \/ Contains(condition_lower, "partly cloud")
          THEN ":sun_behind_cloud:"
        ELSE IF Contains(condition_lower, "cloudy") \/ Contains(condition_lower, "overcast")
          THEN ":cloud:"
        ELSE IF Contains(condition_lower, "rain") \/ Contains(condition_lower, "drizzle")
          THEN ":rain_cloud:"
        ELSE IF Contains(condition_lower, "storm") \/ Contains(condition_lower, "thunder")
          THEN ":thunder_cloud:"
        ELSE IF Contains(condition_lower, "snow")
          THEN ":snowflake:"
        ELSE IF Contains(condition_lower, "fog") \/ Contains(condition_lower, "mist")
          THEN ":fog:"
        ELSE ":sun_small_cloud:"

get_temperature_icon(temperature) ==
    IF temperature < 10 THEN ":cold_face:"
    ELSE IF temperature < 15 THEN ":snowflake:"
    ELSE IF temperature < 20 THEN ":smile:"
    ELSE IF temperature < 25 THEN ":relaxed:"
    ELSE IF temperature < 30 THEN ":sunglasses:"
    ELSE ":hot_face:"

\* the descriptive label format_weather_display puts after the temperature
temp_desc(temperature) ==
    IF temperature < 10 THEN "Very Cold"
    ELSE IF temperature < 15 THEN "Cold"
    ELSE IF temperature < 20 THEN "Cool"
    ELSE IF temperature < 25 THEN "Pleasant"
    ELSE IF temperature < 30 THEN "Warm"
    ELSE IF temperature < 35 THEN "Hot"
    ELSE "Very Hot"

\* dict.get(key, default), rendered into an f-string
GetText(d, key, default) ==
    IF key \in DOMAIN d THEN ToString(d[key]) ELSE default

RECURSIVE Join(_, _)
\* sep.join(items)
Join(sep, items) ==
    IF items = <<>> THEN ""
    ELSE IF Len(items) = 1 THEN items[1]
    ELSE items[1] \o sep \o Join(sep, Tail(items))

BoxTop == "+==================================================================+\n"
BoxMid == "+------------------------------------------------------------------+\n"
BoxEnd == "+==================================================================+\n"

format_weather_display(wd, location, clothing_suggestions, transport_suggestion) ==
    IF "current" \notin DOMAIN wd THEN "Weather data unavailable\n\n"
    ELSE
      LET weather_condition == wd.current.condition.text
          temperature == wd.current.temp_c
          humidity == GetText(wd.current, "humidity", "N/A")
          wind_kph == GetText(wd.current, "wind_kph", "N/A")
          feels_like == GetText(wd.current, "feelslike_c", ToString(temperature))
          weather_icon == get_weather_icon(weather_condition, temperature)
          temp_icon == get_temperature_icon(temperature)
      IN  "\n" \o BoxTop
            \o "|  " \o weather_icon \o "  WEATHER CONDITIONS  " \o weather_icon \o "\n"
            \o BoxMid
            \o "|  Location: " \o location \o "\n"
            \o "|  Temperature: " \o ToString(temperature) \o "C " \o temp_icon
                 \o " (" \o temp_desc(temperature) \o ")\n"
            \o "|  Feels Like: " \o feels_like \o "C\n"
            \o "|  Condition: " \o weather_condition \o "\n"
            \o "|  Humidity: " \o humidity \o "%\n"
            \o "|  Wind Speed: " \o wind_kph \o " km/h\n"
            \o BoxMid
            \o "|  WHAT TO WEAR:\n"
            \o "|     * " \o Join("\n     * ", clothing_suggestions) \o "\n"
            \o BoxMid
            \o "|  TRANSPORT ADVICE:\n"
            \o "|     " \o transport_suggestion \o "\n"
            \o BoxEnd

\* the price label with FREE taken on price_min alone
price_str_free_from_zero(price_min, price_max) ==
    IF price_min = 0 THEN "FREE :party:"
    ELSE IF price_min = price_max THEN "$" \o ToString(price_min)
    ELSE "$" \o ToString(price_min) \o "-$" \o ToString(price_max)

\* the availability tiers with the thresholds taken inclusively
avail_status_at_least(available, capacity) ==
    LET above(t) == IF capacity > 0 THEN 100 * available >= t * capacity
                    ELSE 0 >= t
    IN  IF above(50) THEN ":check: Good availability"
        ELSE IF above(20) THEN ":warning: Limited spots"
        ELSE IF above(0) THEN ":red: Almost full - BOOK NOW!"
        ELSE ":cross: SOLD OUT"

\* the price line of one event (prices are whole amounts, printed by :.0f)
price_str(price_min, price_max) ==
    IF price_min = 0 /\ price_max = 0 THEN "FREE :party:"
    ELSE IF price_min = price_max THEN "$" \o ToString(price_min)
    ELSE "$" \o ToString(price_min) \o "-$" \o ToString(price_max)

\* available / capacity * 100 compared with 50, 20 and 0; the comparisons
\* are taken on 100 * available against threshold * capacity, which agree
\* with the floating-point ones for every 0 <= available <= capacity <= 3000
avail_status(available, capacity) ==
    LET above(t) == IF capacity > 0 THEN 100 * available > t * capacity
                    ELSE 0 > t
    IN  IF above(50) THEN ":check: Good availability"
        ELSE IF above(20) THEN ":warning: Limited spots"
        ELSE IF above(0) THEN ":red: Almost full - BOOK NOW!"
        ELSE ":cross: SOLD OUT"

Upper(s) ==
    CASE s = "morning" -> "MORNING"
      [] s = "afternoon" -> "AFTERNOON"
      [] s = "evening" -> "EVENING"
      [] s = "indoor" -> "INDOOR"
      [] s = "outdoor" -> "OUTDOOR"
      [] OTHER -> s

period_icon(time_period) ==
    IF time_period = "morning" THEN ":sunrise:"
    ELSE IF time_period = "afternoon" THEN ":sun:"
    ELSE ":moon:"

\* the block one event adds to events_context
EventBlock(event) ==
    "\n  " \o (IF event.type = "indoor" THEN ":house:" ELSE ":tree:")
      \o " " \o event.name \o " (" \o Upper(event.type) \o ")\n"
      \o "     " \o event.description \o "\n"
      \o "     at " \o event.location \o "\n"
      \o "     from " \o event.start_time \o " - " \o event.end_time \o "\n"
      \o "     price " \o price_str(event.price_min, event.price_max) \o "\n"
      \o "     " \o avail_status(event.available_spots, event.capacity)
      \o " (" \o ToString(event.available_spots) \o "/"
      \o ToString(event.capacity) \o " spots available)\n"

RECURSIVE EventBlocks(_)
EventBlocks(time_events) ==
    IF time_events = <<>> THEN ""
    ELSE EventBlock(Head(time_events)) \o EventBlocks(Tail(time_events))

\* the header of a bucket followed by its events; nothing for an empty bucket
PeriodBlock(time_period, time_events) ==
    IF time_events = <<>> THEN ""
    ELSE "\n" \o period_icon(time_period) \o " " \o Upper(time_period) \o "\n"
           \o "----------------------------------------------------------------------\n"
           \o EventBlocks(time_events)

\* the keys in alphabetical order
PeriodOrder_sorted == <<"afternoon", "evening", "morning">>

\* the order in which grouped_events.items() yields the keys
PeriodOrder == <<"morning", "afternoon", "evening">>

EventsHeader == "\n" \o BoxTop \o "|  EVENTS GROUPED BY TIME OF DAY\n" \o BoxEnd

events_context(grouped) ==
    EventsHeader
      \o PeriodBlock(PeriodOrder[1], grouped[PeriodOrder[1]])
      \o PeriodBlock(PeriodOrder[2], grouped[PeriodOrder[2]])
      \o PeriodBlock(PeriodOrder[3], grouped[PeriodOrder[3]])

Instructions == "IMPORTANT: Provide CONCISE and BULLETED recommendations:\n\nTOP RECOMMENDATIONS:\n- List each recommended event with brief reasoning\n- Keep each bullet point to 1-2 sentences maximum\n- Mention booking urgency if relevant (limited spots)\n- Include why it's good based on weather/time/price\n- Use exact event names and times\n\nFormat: Simple bullet points, no long paragraphs or elaborate sections."

\* the user message handed to the chat completion
full_context(weather_display, ctx) ==
    weather_display \o "\n\n" \o ctx \o "\n\n" \o Instructions

(***************************************************************************)
(* Calls that return or raise                                              *)
(***************************************************************************)
Return(v) == [raised |-> FALSE, value |-> v]
Raise(type, msg) == [raised |-> TRUE, type |-> type, msg |-> msg]

\* get_weather re-raising the RequestException's text without its prefix
get_weather_unprefixed(http) ==
    IF http.ok THEN Return(http.json)
    ELSE Raise("Exception", http.error)

\* WeatherAgent.get_weather: http is what requests.get / raise_for_status /
\* json produce, a decoded body or a RequestException
get_weather(http) ==
    IF http.ok THEN Return(http.json)
    ELSE Raise("Exception", "Weather API error: " \o http.error)

\* EventAgent.get_events: db is the condition of events.db at the call
execute_query(db, cat, date, event_type, time_of_day, max_price) ==
    IF db = "unopenable"
      THEN Raise("OperationalError", "unable to open database file")
    ELSE IF db = "no_table"
      THEN Raise("Exception", "Database error: " \o "no such table: events")
    ELSE Return(get_events(cat, date, event_type, time_of_day, max_price))

\* 'SELECT date FROM events WHERE name = ? AND date != ?', fetchall
get_alternative_dates(cat, event_name, original_date) ==
    LET rows == SelectSeq(cat, LAMBDA row :
                            row.name = event_name /\ row.date # original_date)
    IN  [i \in 1..Len(rows) |-> rows[i].date]

\* EventAgent.get_alternative_dates: the connect is outside the try, an
\* sqlite3.Error of the query gives an empty list
execute_dates_query(db, cat, event_name, original_date) ==
    IF db = "unopenable"
      THEN Raise("OperationalError", "unable to open database file")
    ELSE IF db = "no_table"
      THEN Return(<<>>)
    ELSE Return(get_alternative_dates(cat, event_name, original_date))

\* a close that commits a booking of every row with spots left
conn_close_booking(cat) ==
    [i \in 1..Len(cat) |->
       [cat[i] EXCEPT !.available_spots = IF @ > 0 THEN @ - 1 ELSE @]]

\* conn.close() after a SELECT, nothing written and nothing committed: the
\* table is as it was
conn_close(cat) == cat

\* the connection opened by the call, if it opened, is closed
closed_after(db, cat) == IF db = "unopenable" THEN cat ELSE conn_close(cat)

\* the empty check never taken
not_events_never(evs) == FALSE

\* `if not events:`
not_events(evs) == evs = <<>>

\* lines 895-902 of get_recommendations: the advice taken from the snapshot
weather_suggestions(wd) ==
    IF "current" \in DOMAIN wd
      THEN IF "temp_c" \notin DOMAIN wd.current
             THEN Raise("KeyError", "'temp_c'")
           ELSE IF "condition" \notin DOMAIN wd.current
             THEN Raise("KeyError", "'condition'")
           ELSE IF "text" \notin DOMAIN wd.current.condition
             THEN Raise("KeyError", "'text'")
           ELSE Return([clothing |-> get_clothing_suggestion(
                                       wd.current.temp_c,
                                       wd.current.condition.text),
                        transport |-> get_transport_suggestion(
                                       wd.current.temp_c,
                                       wd.current.condition.text)])
    ELSE Return([clothing |-> <<>>, transport |-> "Weather data unavailable"])

\* generate_recommendation answering a failed completion with the weather
\* box and a remark instead of raising
generate_recommendation_degraded(weather_display, completion) ==
    IF completion.ok
      THEN Return(weather_display \o "\n" \o completion.content)
    ELSE Return(weather_display \o "\n" \o "Recommendations unavailable: "
                  \o completion.error)

\* generate_recommendation returning the completion without the weather box
generate_recommendation_reply_only(weather_display, completion) ==
    IF completion.ok
      THEN Return(completion.content)
    ELSE Raise("Exception", "Recommendation error: " \o completion.error)

\* RecommendationAgent.generate_recommendation: completion is what
\* openai.ChatCompletion.create produces, a message or an error
generate_recommendation(weather_display, completion) ==
    IF completion.ok
      THEN Return(weather_display \o "\n" \o completion.content)
    ELSE Raise("Exception", "Recommendation error: " \o completion.error)

\* the empty result reported as an error
no_events_message_as_error == "Error: No events found matching your criteria for this date."

no_events_message == "No events found matching your criteria for this date."

\* the classes derived from Exception among those the calls raise
ExceptionClasses == {"Exception", "OperationalError", "KeyError"}

\* the handler returning the exception's text alone
error_result_bare(msg) == msg

\* except Exception as e: return f"Error: {str(e)}"
error_result(msg) == "Error: " \o msg

\* what get_recommendations leaves when r was raised inside its try: the
\* returned string if the handler catches r, the escaping exception if not
Handle(r) ==
    IF r.type \in ExceptionClasses
      THEN /\ result' = error_result(r.msg)
           /\ exc' = None
      ELSE /\ result' = result
           /\ exc' = Some(r)

(***************************************************************************)
(* Inputs                                                                  *)
(***************************************************************************)
Locations == {"Singapore"}
Dates == {"2026-02-15", "2026-02-16", "2026-02-17"}
EventTypes == {None, Some("indoor"), Some("outdoor"), Some("")}
TimesOfDay == {None, Some("morning"), Some("afternoon"), Some("evening"),
               Some("night")}
MaxPrices == {None, Some(0), Some(10), Some(25)}

Snapshot(temp_c, text) ==
    [location |-> [name |-> "Singapore"],
     current |-> [temp_c |-> temp_c, condition |-> [text |-> text],
                  humidity |-> 70, wind_kph |-> 12, feelslike_c |-> temp_c + 2]]

\* bodies a 200 response can carry
Snapshots ==
    { Snapshot(28, "Partly cloudy"),
      Snapshot(8, "Light rain"),
      Snapshot(31, "Sunny"),
      [current |-> [temp_c |-> 20, condition |-> [text |-> "Clear"]]],
      [location |-> [name |-> "Singapore"]],
      [current |-> [condition |-> [text |-> "Sunny"]]],
      [current |-> [temp_c |-> 20]],
      [current |-> [temp_c |-> 20, condition |-> [code |-> 1000]]] }

HttpResponses ==
    {[ok |-> TRUE, json |-> wd] : wd \in Snapshots}
      \cup {[ok |-> FALSE, error |-> e] :
              e \in {"400 Client Error: Bad Request for url",
                     "Connection refused"}}

DbStates == {"ok", "unopenable", "no_table"}

Completions ==
    {[ok |-> TRUE, content |-> c] :
        c \in {"- Book early, spots are limited.",
               "- Morning Yoga (06:00-07:30) - only 8 spots left"}}
      \cup {[ok |-> FALSE, error |-> e] :
              e \in {"Rate limit reached", "Incorrect API key provided"}}

(***************************************************************************)
(* State                                                                   *)
(***************************************************************************)
NoOutcome == [weather |-> "none", weather_msg |-> "",
              events |-> "none",
              generator |-> "none", generator_msg |-> "", content |-> ""]

NoContext == [weather_display |-> "", events_context |-> "", full_context |-> ""]

\* the frame of a call before anything ran
Frame(p) ==
    /\ pc = p
    /\ req = None
    /\ weather_data = None
    /\ clothing = <<>>
    /\ transport = ""
    /\ events = <<>>
    /\ grouped_events = None
    /\ context = NoContext
    /\ result = ""
    /\ calls = <<>>
    /\ outcome = NoOutcome
    /\ exc = None

Init ==
    /\ catalog = setup_database
    /\ Frame("idle")

Criteria(location, date, event_type, time_of_day, max_price) ==
    [location |-> location, date |-> date, event_type |-> event_type,
     time_of_day |-> time_of_day, max_price |-> max_price]

(***************************************************************************)
(* CoordinatorAgent.get_recommendations, one action per blocking call      *)
(***************************************************************************)
\* the call: arguments bound, nothing fetched yet
get_recommendations ==
    /\ pc = "idle"
    /\ \E location \in Locations, date \in Dates, event_type \in EventTypes,
          time_of_day \in TimesOfDay, max_price \in MaxPrices :
         req' = Some(Criteria(location, date, event_type, time_of_day, max_price))
    /\ pc' = "get_weather"
    /\ UNCHANGED <<catalog, weather_data, clothing, transport, events,
                   grouped_events, context, result, calls, outcome, exc>>

\* lines 892-902: the weather fetch, then the advice
fetch_weather ==
    /\ pc = "get_weather"
    /\ \E http \in HttpResponses :
         LET w == get_weather(http)
         IN  /\ calls' = Append(calls, "get_weather")
             /\ IF w.raised
                  THEN /\ outcome' = [outcome EXCEPT !.weather = "raised",
                                                     !.weather_msg = http.error]
                       /\ Handle(w)
                       /\ pc' = "done"
                       /\ UNCHANGED <<weather_data, clothing, transport>>
                  ELSE LET s == weather_suggestions(w.value)
                       IN  /\ outcome' = [outcome EXCEPT !.weather = "returned"]
                           /\ weather_data' = w.value
                           /\ IF s.raised
                                THEN /\ Handle(s)
                                     /\ pc' = "done"
                                     /\ UNCHANGED <<clothing, transport>>
                                ELSE /\ clothing' = s.value.clothing
                                     /\ transport' = s.value.transport
                                     /\ pc' = "get_events"
                                     /\ UNCHANGED <<result, exc>>
    /\ UNCHANGED <<catalog, req, events, grouped_events, context>>

\* lines 904-912: the catalog query, the empty check, the grouping
fetch_events ==
    /\ pc = "get_events"
    /\ \E db \in DbStates :
         LET q == execute_query(db, catalog, req[1].date, req[1].event_type,
                                req[1].time_of_day, req[1].max_price)
         IN  /\ IF q.raised
                  THEN /\ outcome' = [outcome EXCEPT !.events =
                                        IF db = "unopenable" THEN "connect_failed"
                                        ELSE "execute_failed"]
                       /\ Handle(q)
                       /\ calls' = Append(calls, "get_events")
                       /\ pc' = "done"
                       /\ UNCHANGED <<events, grouped_events>>
                ELSE /\ outcome' = [outcome EXCEPT !.events = "returned"]
                     /\ events' = q.value
                     /\ IF not_events(q.value)
                          THEN /\ result' = no_events_message
                               /\ calls' = Append(calls, "get_events")
                               /\ pc' = "done"
                               /\ UNCHANGED <<grouped_events, exc>>
                          ELSE /\ grouped_events' = Some(group_events_by_time(q.value))
                               /\ calls' = calls \o <<"get_events", "group_events_by_time">>
                               /\ pc' = "generate_recommendation"
                               /\ UNCHANGED <<result, exc>>
             /\ catalog' = closed_after(db, catalog)
    /\ UNCHANGED <<req, weather_data, clothing, transport, context>>

\* lines 916-920 and generate_recommendation: render, ask, combine
fetch_recommendation ==
    /\ pc = "generate_recommendation"
    /\ \E completion \in Completions :
         LET weather_display == format_weather_display(weather_data,
                                   req[1].location, clothing, transport)
             ctx == events_context(grouped_events[1])
             g == generate_recommendation(weather_display, completion)
         IN  /\ context' = [weather_display |-> weather_display,
                            events_context |-> ctx,
                            full_context |-> full_context(weather_display, ctx)]
             /\ calls' = calls \o <<"generate_recommendation",
                                    "format_weather_display",
                                    "ChatCompletion.create">>
             /\ outcome' = IF completion.ok
                              THEN [outcome EXCEPT !.generator = "returned",
                                      !.content = completion.content]
                            ELSE [outcome EXCEPT !.generator = "raised",
                                    !.generator_msg = completion.error]
             /\ IF g.raised
                  THEN Handle(g)
                  ELSE /\ result' = g.value
                       /\ exc' = None
             /\ pc' = "done"
    /\ UNCHANGED <<catalog, req, weather_data, clothing, transport, events,
                   grouped_events>>

\* the caller has the returned string; the coordinator keeps nothing
finish ==
    /\ pc = "done"
    /\ pc' = "idle"
    /\ req' = None
    /\ weather_data' = None
    /\ clothing' = <<>>
    /\ transport' = ""
    /\ events' = <<>>
    /\ grouped_events' = None
    /\ context' = NoContext
    /\ result' = ""
    /\ calls' = <<>>
    /\ outcome' = NoOutcome
    /\ exc' = None
    /\ UNCHANGED catalog

Next ==
    \/ get_recommendations
    \/ fetch_weather
    \/ fetch_events
    \/ fetch_recommendation
    \/ finish

Spec == Init /\ [][Next]_vars

(***************************************************************************)
(* Properties of CoordinatorAgent.get_recommendations (Spec)               *)
(***************************************************************************)
Range(seq) == {seq[i] : i \in 1..Len(seq)}

EndsWith(s, t) ==
    Len(s) >= Len(t) /\ SubSeq(s, Len(s) - Len(t) + 1, Len(s)) = t

Returned == pc = "done"

IsFailureText == StartsWith(result, "Error: ")
IsNoEventsText == result = "No events found matching your criteria for this date."
IsSuccessText == outcome.generator = "returned" /\ EndsWith(result, outcome.content)

\* C1: whatever the three collaborators do, get_recommendations returns a
\* string, no exception escapes it, and the string is exactly one of a
\* Success text, the fixed NoEvents message and a text starting "Error: ".
C1_ReturnsOneOfThreeTexts ==
    Returned =>
      /\ exc = None
      /\ Cardinality({k \in {"success", "noevents", "failure"} :
                        \/ k = "success" /\ IsSuccessText
                        \/ k = "noevents" /\ IsNoEventsText
                        \/ k = "failure" /\ IsFailureText}) = 1

\* an exception get_events did not wrap was caught at the outermost boundary
C1_Witness ==
    Returned /\ outcome.events = "connect_failed" /\ IsFailureText

\* C2: when the weather fetch fails the request ends with
\* "Error: Weather API error: " and the provider's message, and neither
\* get_events nor generate_recommendation was called in that request.
C2_WeatherFailureStopsRequest ==
    outcome.weather = "raised" =>
      /\ Returned
      /\ result = "Error: Weather API error: " \o outcome.weather_msg
      /\ calls = <<"get_weather">>

C2_Witness ==
    Returned /\ outcome.weather = "raised" /\ outcome.weather_msg = "Connection refused"

\* C3: after a weather fetch that succeeded, an empty query result ends the
\* request with exactly the NoEvents message, not an error, and grouping,
\* rendering and the recommendation generator are skipped.
C3_EmptyResultIsNoEvents ==
    (outcome.weather = "returned" /\ outcome.events = "returned" /\ events = <<>>) =>
      /\ Returned
      /\ result = "No events found matching your criteria for this date."
      /\ ~StartsWith(result, "Error: ")
      /\ calls = <<"get_weather", "get_events">>
      /\ grouped_events = None
      /\ context.full_context = ""

\* rows exist on the date and the filters leave none of them
C3_Witness ==
    /\ Returned
    /\ outcome.events = "returned"
    /\ events = <<>>
    /\ \E i \in 1..Len(catalog) : catalog[i].date = req[1].date

\* C4: whenever the catalog cannot be opened or the query fails, the request
\* ends with a text starting "Error: Database error: " and the recommendation
\* generator is not called.  (The claim as stated; the code violates it.)
C4_DatabaseFailureIsPrefixed ==
    outcome.events \in {"connect_failed", "execute_failed"} =>
      /\ Returned
      /\ StartsWith(result, "Error: Database error: ")
      /\ "generate_recommendation" \notin Range(calls)

\* C5: when the generator fails after a successful fetch and a non-empty
\* result, the returned text is "Error: Recommendation error: " and the
\* provider's message, and holds no part of the rendered block.
C5_GeneratorFailureIsNotPartialSuccess ==
    outcome.generator = "raised" =>
      /\ Returned
      /\ result = "Error: Recommendation error: " \o outcome.generator_msg
      /\ ~StartsWith(result, context.weather_display)
      /\ ~Contains(result, "WEATHER CONDITIONS")
      /\ ~Contains(result, "Weather data unavailable")
      /\ \A i \in 1..Len(events) : ~Contains(result, events[i].name)

\* the block was rendered before the generator failed
C5_Witness ==
    /\ Returned
    /\ outcome.generator = "raised"
    /\ Len(events) >= 2
    /\ Contains(context.weather_display, "WEATHER CONDITIONS")

\* the sub-blocks of the non-empty buckets, as rendered into the context
EventSubBlocks ==
    PeriodBlock("morning", grouped_events[1].morning)
      \o PeriodBlock("afternoon", grouped_events[1].afternoon)
      \o PeriodBlock("evening", grouped_events[1].evening)

\* what the returned text holds between the weather box and the reply
Between ==
    SubSeq(result, Len(context.weather_display) + 1,
           Len(result) - Len(outcome.content))

\* C6 as stated: the Success text is the weather block followed by the
\* per-bucket event sub-blocks followed by the generator's response.
C6_SuccessHoldsEventBlocks ==
    (Returned /\ outcome.generator = "returned") =>
      /\ StartsWith(result, context.weather_display)
      /\ EndsWith(result, outcome.content)
      /\ Contains(Between, EventSubBlocks)

\* C6 as amended: the Success text is the weather block, one newline and the
\* generator's response; the event sub-blocks are in the context handed to
\* the generator only.
C6_SuccessIsWeatherBlockThenReply ==
    (Returned /\ outcome.generator = "returned") =>
      /\ result = context.weather_display \o "\n" \o outcome.content
      /\ Between = "\n"
      /\ context.weather_display =
           format_weather_display(weather_data, req[1].location, clothing, transport)
      /\ context.full_context =
           context.weather_display \o "\n\n" \o context.events_context
             \o "\n\n" \o Instructions
      /\ EndsWith(context.events_context, EventSubBlocks)

C6_Witness ==
    /\ Returned
    /\ outcome.generator = "returned"
    /\ grouped_events[1].morning # <<>>
    /\ grouped_events[1].evening # <<>>
    /\ "current" \in DOMAIN weather_data

\* a snapshot without 'current', or whose 'current' lacks temp_c or the
\* condition text
Malformed(wd) ==
    \/ "current" \notin DOMAIN wd
    \/ "temp_c" \notin DOMAIN wd.current
    \/ "condition" \notin DOMAIN wd.current
    \/ "text" \notin DOMAIN wd.current.condition

\* C7: when the fetch returns an absent or malformed snapshot the
\* coordinator takes an empty clothing list and "Weather data unavailable",
\* goes on to the catalog query and does not fail because of the snapshot.
\* (The claim as stated; the code violates it.)
C7_MalformedSnapshotDegrades ==
    (outcome.weather = "returned" /\ Malformed(weather_data)) =>
      /\ clothing = <<>>
      /\ transport = "Weather data unavailable"
      /\ pc = "get_events" \/ "get_events" \in Range(calls)

(***************************************************************************)
(* EventAgent called directly, over every catalog of the bound             *)
(***************************************************************************)
InitEventAgent ==
    /\ catalog \in Catalogs
    /\ Frame("idle")

\* EventAgent().get_events(date, event_type, time_of_day, max_price)
call_get_events ==
    /\ pc = "idle"
    /\ \E date \in Dates, event_type \in EventTypes, time_of_day \in TimesOfDay,
          max_price \in MaxPrices, db \in DbStates :
         LET q == execute_query(db, catalog, date, event_type, time_of_day, max_price)
         IN  /\ req' = Some(Criteria("", date, event_type, time_of_day, max_price))
             /\ IF q.raised
                  THEN /\ exc' = Some(q)
                       /\ UNCHANGED events
                  ELSE /\ events' = q.value
                       /\ UNCHANGED exc
             /\ catalog' = closed_after(db, catalog)
    /\ calls' = Append(calls, "get_events")
    /\ pc' = "agent_returned"
    /\ UNCHANGED <<weather_data, clothing, transport, grouped_events,
                   context, result, outcome>>

\* EventAgent().group_events_by_time(events) on the rows just returned
call_group_events_by_time ==
    /\ pc = "agent_returned"
    /\ exc = None
    /\ grouped_events = None
    /\ grouped_events' = Some(group_events_by_time(events))
    /\ calls' = Append(calls, "group_events_by_time")
    /\ UNCHANGED <<catalog, pc, req, weather_data, clothing, transport, events,
                   context, result, outcome, exc>>

\* the caller drops what it got
agent_finish ==
    /\ pc \in {"agent_returned", "dates_returned"}
    /\ pc' = "idle"
    /\ req' = None
    /\ events' = <<>>
    /\ grouped_events' = None
    /\ calls' = <<>>
    /\ exc' = None
    /\ UNCHANGED <<catalog, weather_data, clothing, transport, context,
                   result, outcome>>

NextEventAgent ==
    \/ call_get_events
    \/ call_group_events_by_time
    \/ agent_finish

SpecEventAgent == InitEventAgent /\ [][NextEventAgent]_vars

\* names asked of get_alternative_dates, one of them of no event
EventNames == {"Summer Concert", "Night Market", "Jazz Night"}

\* EventAgent().get_alternative_dates(event_name, original_date); the list
\* of dates it returns is held in events
call_get_alternative_dates ==
    /\ pc = "idle"
    /\ \E event_name \in EventNames, original_date \in Dates, db \in DbStates :
         LET q == execute_dates_query(db, catalog, event_name, original_date)
         IN  /\ req' = Some([event_name |-> event_name,
                              original_date |-> original_date])
             /\ IF q.raised
                  THEN /\ exc' = Some(q)
                       /\ UNCHANGED events
                  ELSE /\ events' = q.value
                       /\ UNCHANGED exc
             /\ catalog' = closed_after(db, catalog)
    /\ calls' = Append(calls, "get_alternative_dates")
    /\ pc' = "dates_returned"
    /\ UNCHANGED <<weather_data, clothing, transport, grouped_events,
                   context, result, outcome>>

\* the coordinator and the event agent called one after another, in any
\* order, on the catalog setup_database left
NextSession ==
    \/ Next
    \/ NextEventAgent
    \/ call_get_alternative_dates

SpecSession == Init /\ [][NextSession]_vars

(***************************************************************************)
(* Properties of EventAgent.get_events (SpecEventAgent)                    *)
(***************************************************************************)
\* get_events returned rows for the criteria in req
QueryReturned == pc = "agent_returned" /\ exc = None

Digit(s, i) == CharCode[SubSeq(s, i, i)] - 48

\* minutes since midnight of an HH:MM time
Minutes(t) == (Digit(t, 1) * 10 + Digit(t, 2)) * 60 + Digit(t, 4) * 10 + Digit(t, 5)

\* startTime lies in the interval of the bucket
InBucket(row, bucket) ==
    CASE bucket = "morning" -> 6 * 60 <= Minutes(row.start_time)
                                 /\ Minutes(row.start_time) < 12 * 60
      [] bucket = "afternoon" -> 12 * 60 <= Minutes(row.start_time)
                                   /\ Minutes(row.start_time) < 18 * 60
      [] bucket = "evening" -> 18 * 60 <= Minutes(row.start_time)

Categories == {"indoor", "outdoor"}
Buckets == {"morning", "afternoon", "evening"}

\* the criteria are of the filter vocabulary: each optional one absent or
\* one of its values
InVocabulary(c) ==
    /\ c.event_type = None \/ c.event_type[1] \in Categories
    /\ c.time_of_day = None \/ c.time_of_day[1] \in Buckets

\* the row meets every filter that is present
MeetsFilters(row, c) ==
    /\ c.event_type # None => row.type = c.event_type[1]
    /\ c.time_of_day # None => InBucket(row, c.time_of_day[1])
    /\ c.max_price # None => row.price_min <= c.max_price[1]

DateMatched(c) == SelectSeq(catalog, LAMBDA row : row.date = c.date)

\* C8: the rows get_events returns are a subsequence of the date-matched
\* rows in insertion order, each meets all present filters, every
\* date-matched row that meets them is returned, and without optional
\* filters the result is the date-matched sequence itself.
C8_ResultIsTheFilteredSubsequence ==
    (QueryReturned /\ InVocabulary(req[1])) =>
      /\ \A i \in 1..Len(events) : events[i] \in Range(DateMatched(req[1]))
      /\ \A i, j \in 1..Len(events) : i < j => events[i].id < events[j].id
      /\ \A i \in 1..Len(events) : MeetsFilters(events[i], req[1])
      /\ \A row \in Range(DateMatched(req[1])) :
           MeetsFilters(row, req[1]) => row \in Range(events)
      /\ (req[1].event_type = None /\ req[1].time_of_day = None
            /\ req[1].max_price = None) => events = DateMatched(req[1])

\* two filters at once keep one of two date-matched rows
C8_Witness ==
    /\ QueryReturned
    /\ req[1].event_type # None
    /\ req[1].max_price # None
    /\ Len(DateMatched(req[1])) = 2
    /\ Len(events) = 1

\* C9: with maxPrice present, 0 included, a date-matched row is kept exactly
\* when its priceMin is at most maxPrice; priceMax plays no part.
C9_BudgetComparesPriceMin ==
    (QueryReturned /\ req[1].max_price # None) =>
      /\ \A i \in 1..Len(events) : events[i].price_min <= req[1].max_price[1]
      /\ (req[1].event_type = None /\ req[1].time_of_day = None) =>
           events = SelectSeq(catalog, LAMBDA row :
                       row.date = req[1].date
                         /\ row.price_min <= req[1].max_price[1])

\* a budget of 0 keeps a row whose priceMax is above it and drops a dearer one
C9_Witness ==
    /\ QueryReturned
    /\ req[1].max_price = Some(0)
    /\ \E i \in 1..Len(events) : events[i].price_max > 0
    /\ Len(events) < Len(DateMatched(req[1]))

\* C10: with timeOfDay present a date-matched row is kept exactly when its
\* startTime is in the bucket: 06:00 <= t < 12:00, 12:00 <= t < 18:00,
\* t >= 18:00.
C10_TimeFilterIsTheBucketInterval ==
    (QueryReturned /\ req[1].time_of_day # None
       /\ req[1].time_of_day[1] \in Buckets) =>
      /\ \A i \in 1..Len(events) : InBucket(events[i], req[1].time_of_day[1])
      /\ (req[1].event_type = None /\ req[1].max_price = None) =>
           events = SelectSeq(catalog, LAMBDA row :
                       row.date = req[1].date
                         /\ InBucket(row, req[1].time_of_day[1]))

\* 06:00 and 11:59 are both morning
C10_Witness ==
    /\ QueryReturned
    /\ req[1].time_of_day = Some("morning")
    /\ {events[i].start_time : i \in 1..Len(events)} = {"06:00", "11:59"}

(***************************************************************************)
(* Properties of EventAgent.group_events_by_time (SpecEventAgent)          *)
(***************************************************************************)
\* the hour of an HH:MM start time
StartHour(event) == Digit(event.start_time, 1) * 10 + Digit(event.start_time, 2)

\* the bucket the start hour maps to: 6..11, 12..17, every other hour
HourBucket(event) ==
    IF StartHour(event) \in 6..11 THEN "morning"
    ELSE IF StartHour(event) \in 12..17 THEN "afternoon"
    ELSE "evening"

Grouped == pc = "agent_returned" /\ grouped_events # None

\* C11: group_events_by_time returns exactly the keys morning, afternoon and
\* evening, each bucket is the subsequence of the input, in input order, of
\* the events whose start hour maps to it (hours 0..5 to evening), and every
\* event is in exactly one bucket.
C11_GroupingPartitionsByStartHour ==
    Grouped =>
      /\ DOMAIN grouped_events[1] = {"morning", "afternoon", "evening"}
      /\ \A b \in {"morning", "afternoon", "evening"} :
           grouped_events[1][b] = SelectSeq(events, LAMBDA e : HourBucket(e) = b)
      /\ \A i \in 1..Len(events) :
           Cardinality({b \in DOMAIN grouped_events[1] :
                          events[i] \in Range(grouped_events[1][b])}) = 1
      /\ Len(grouped_events[1].morning) + Len(grouped_events[1].afternoon)
           + Len(grouped_events[1].evening) = Len(events)

\* a start at 05:30 went to evening, ahead of an 18:00 start, and the
\* afternoon key is there with nothing in it
C11_Witness ==
    /\ Grouped
    /\ Len(grouped_events[1].evening) = 2
    /\ grouped_events[1].evening[1].start_time = "05:30"
    /\ grouped_events[1].evening[2].start_time = "18:00"
    /\ grouped_events[1].afternoon = <<>>

(***************************************************************************)
(* The formatting and advice operations, each called on its own            *)
(***************************************************************************)
MaxCapacity == 10

\* capacities and available spots an event row can carry, the rows of
\* database.py among them
Capacities == (-1..MaxCapacity) \cup {30, 2000}
Availables == (0..MaxCapacity) \cup {2000}

\* price_min and price_max values of event rows
Prices == {0, 10, 15, 20, 25, 80}

\* lines 705-714 on the spots of one event
render_avail_status ==
    /\ pc = "idle"
    /\ \E available \in Availables, capacity \in Capacities :
         /\ req' = Some([available |-> available, capacity |-> capacity])
         /\ result' = avail_status(available, capacity)
    /\ pc' = "avail_status"
    /\ UNCHANGED <<catalog, weather_data, clothing, transport, events,
                   grouped_events, context, calls, outcome, exc>>

\* lines 697-703 on the prices of one event
render_price_str ==
    /\ pc = "idle"
    /\ \E price_min \in Prices, price_max \in Prices :
         /\ req' = Some([price_min |-> price_min, price_max |-> price_max])
         /\ result' = price_str(price_min, price_max)
    /\ pc' = "price_str"
    /\ UNCHANGED <<catalog, weather_data, clothing, transport, events,
                   grouped_events, context, calls, outcome, exc>>

MaxEvents == 3

\* rows a query result can hold: two starts in each bucket, the edges of
\* the buckets among them
ContextPool ==
    {SampleEvents[3], SampleEvents[4], SampleEvents[1],
     EdgeEvents[1], EdgeEvents[2], EdgeEvents[3]}

\* query results of at most MaxEvents rows
EventLists ==
    UNION {{WithIds(s) : s \in [1..n -> ContextPool]} : n \in 0..MaxEvents}

\* lines 663-723 on the grouping of one query result
render_events_context ==
    /\ pc = "idle"
    /\ \E evs \in EventLists :
         /\ events' = evs
         /\ grouped_events' = Some(group_events_by_time(evs))
         /\ context' = [context EXCEPT !.events_context =
                          events_context(group_events_by_time(evs))]
    /\ pc' = "events_context"
    /\ UNCHANGED <<catalog, req, weather_data, clothing, transport, result,
                   calls, outcome, exc>>

\* condition texts: texts of the weather service, in other letter cases
\* too, and texts that hold the words of several rules
Conditions ==
    {"Sunny", "Clear", "Partly cloudy", "PARTLY CLOUDY", "Cloudy", "Overcast",
     "Mist", "Freezing fog", "Light rain", "Light drizzle", "Heavy snow",
     "Blizzard", "Thundery outbreaks possible", "Light rain shower",
     "Moderate or heavy rain with thunder", "Patchy snow showers",
     "Cloudy with light rain", "Partly cloudy with drizzle",
     "Sunny intervals with rain showers", "Clear, clouds later: overcast",
     "Sunny then partly cloudy", "Hot and humid", "Storm warning",
     "Foggy, snow later"}

\* temperatures in Celsius on both sides of every threshold
Temperatures == {-5, 9, 10, 14, 15, 24, 25, 30, 31, 36}

\* RecommendationAgent().get_weather_icon(condition, temperature)
call_get_weather_icon ==
    /\ pc = "idle"
    /\ \E condition \in Conditions, temperature \in Temperatures :
         /\ req' = Some([temperature |-> temperature, condition |-> condition])
         /\ result' = get_weather_icon(condition, temperature)
    /\ pc' = "get_weather_icon"
    /\ UNCHANGED <<catalog, weather_data, clothing, transport, events,
                   grouped_events, context, calls, outcome, exc>>

\* WeatherAgent().get_transport_suggestion(temperature, condition)
call_get_transport_suggestion ==
    /\ pc = "idle"
    /\ \E condition \in Conditions, temperature \in Temperatures :
         /\ req' = Some([temperature |-> temperature, condition |-> condition])
         /\ transport' = get_transport_suggestion(temperature, condition)
    /\ pc' = "get_transport_suggestion"
    /\ UNCHANGED <<catalog, weather_data, clothing, result, events,
                   grouped_events, context, calls, outcome, exc>>

\* WeatherAgent().get_clothing_suggestion(temperature, condition)
call_get_clothing_suggestion ==
    /\ pc = "idle"
    /\ \E condition \in Conditions, temperature \in Temperatures :
         /\ req' = Some([temperature |-> temperature, condition |-> condition])
         /\ clothing' = get_clothing_suggestion(temperature, condition)
    /\ pc' = "get_clothing_suggestion"
    /\ UNCHANGED <<catalog, weather_data, transport, result, events,
                   grouped_events, context, calls, outcome, exc>>

\* the value is dropped
function_return ==
    /\ pc \in {"avail_status", "price_str", "events_context", "get_weather_icon",
               "get_transport_suggestion", "get_clothing_suggestion"}
    /\ pc' = "idle"
    /\ req' = None
    /\ result' = ""
    /\ clothing' = <<>>
    /\ transport' = ""
    /\ events' = <<>>
    /\ grouped_events' = None
    /\ context' = NoContext
    /\ UNCHANGED <<catalog, weather_data, calls, outcome, exc>>

NextFunctions ==
    \/ render_avail_status
    \/ render_price_str
    \/ render_events_context
    \/ call_get_weather_icon
    \/ call_get_transport_suggestion
    \/ call_get_clothing_suggestion
    \/ function_return

SpecFunctions == Init /\ [][NextFunctions]_vars

(***************************************************************************)
(* Properties of the event lines (SpecFunctions)                           *)
(***************************************************************************)
\* C12: for capacity > 0 and 0 <= available <= capacity the status is good
\* availability iff 100*available > 50*capacity, limited spots iff
\* 20*capacity < 100*available <= 50*capacity, almost full iff
\* 0 < 100*available <= 20*capacity, and sold out iff available = 0; for
\* capacity <= 0 the status is sold out whatever available is.
C12_AvailabilityTiers ==
    pc = "avail_status" =>
      LET a == req[1].available
          c == req[1].capacity
      IN  IF c > 0
            THEN a \in 0..c =>
                   /\ result = ":check: Good availability" <=> 100 * a > 50 * c
                   /\ result = ":warning: Limited spots"
                        <=> (20 * c < 100 * a /\ 100 * a <= 50 * c)
                   /\ result = ":red: Almost full - BOOK NOW!"
                        <=> (0 < 100 * a /\ 100 * a <= 20 * c)
                   /\ result = ":cross: SOLD OUT" <=> a = 0
          ELSE result = ":cross: SOLD OUT"

\* 8 of 30 spots left is the limited tier
C12_Witness ==
    /\ pc = "avail_status"
    /\ req[1] = [available |-> 8, capacity |-> 30]
    /\ result = ":warning: Limited spots"

\* with no capacity the status is sold out though spots are counted
C12_WitnessNoCapacity ==
    /\ pc = "avail_status"
    /\ req[1] = [available |-> 5, capacity |-> 0]
    /\ result = ":cross: SOLD OUT"

\* the label the prices of req are given when "FREE" alone is the free label
LabelAsStated ==
    IF req[1].price_min = 0 /\ req[1].price_max = 0 THEN "FREE"
    ELSE IF req[1].price_min = req[1].price_max
      THEN "$" \o ToString(req[1].price_min)
    ELSE "$" \o ToString(req[1].price_min) \o "-$" \o ToString(req[1].price_max)

PricesInClaim ==
    pc = "price_str" /\ 0 <= req[1].price_min /\ req[1].price_min <= req[1].price_max

\* C13 as stated: the label is exactly "FREE" when both prices are zero,
\* "$<priceMin>" when they are equal and nonzero, "$<priceMin>-$<priceMax>"
\* otherwise.
C13_PriceLabelAsStated == PricesInClaim => result = LabelAsStated

\* C13 as amended: the label for two zero prices is "FREE", a space and the
\* party emoji (written :party: here); an equal nonzero pair gives
\* "$<priceMin>" and every other pair, priceMin = 0 with priceMax > 0
\* included, gives "$<priceMin>-$<priceMax>".
C13_PriceLabelWithEmoji ==
    PricesInClaim =>
      /\ (req[1].price_min = 0 /\ req[1].price_max = 0) => result = "FREE :party:"
      /\ ~(req[1].price_min = 0 /\ req[1].price_max = 0) => result = LabelAsStated

\* two zero prices gave the free label, emoji included
C13_Witness ==
    /\ pc = "price_str"
    /\ req[1] = [price_min |-> 0, price_max |-> 0]
    /\ result = "FREE :party:"

\* the line that heads a bucket, from the space after its icon
HeaderLine(bucket) ==
    CASE bucket = "morning" -> " MORNING\n-"
      [] bucket = "afternoon" -> " AFTERNOON\n-"
      [] bucket = "evening" -> " EVENING\n-"

\* the start of the line that heads an event, from the space after its icon
TitleLine(event) == " " \o event.name \o " ("

\* the header and title lines in the order asked of the rendered context
ExpectedLines ==
    LET part(bucket) ==
          IF grouped_events[1][bucket] = <<>> THEN <<>>
          ELSE <<HeaderLine(bucket)>>
                 \o [i \in 1..Len(grouped_events[1][bucket]) |->
                       TitleLine(grouped_events[1][bucket][i])]
    IN  part("morning") \o part("afternoon") \o part("evening")

\* the header and title lines found in the rendered context, with the
\* position each starts at
FoundLines ==
    LET needles == {HeaderLine(b) : b \in {"morning", "afternoon", "evening"}}
                     \cup {TitleLine(e) : e \in ContextPool}
        ctx == context.events_context
    IN  {m \in (1..Len(ctx)) \X needles :
           /\ m[1] + Len(m[2]) - 1 <= Len(ctx)
           /\ SubSeq(ctx, m[1], m[1] + Len(m[2]) - 1) = m[2]}

\* C14: the rendered context holds the buckets in the order morning,
\* afternoon, evening, one header for each non-empty bucket and none for an
\* empty one, and under each header every event of the bucket once, in the
\* order of the grouped input.
C14_ContextFollowsBucketOrder ==
    pc = "events_context" =>
      LET found == FoundLines
          expected == ExpectedLines
      IN  /\ Cardinality(found) = Len(expected)
          /\ \A k \in 1..Len(expected) :
               \E m \in found :
                 /\ m[2] = expected[k]
                 /\ Cardinality({o \in found : o[1] < m[1]}) = k - 1

\* every bucket holds an event, the rows given in the order evening,
\* afternoon, morning
C14_Witness ==
    /\ pc = "events_context"
    /\ Len(events) = 3
    /\ events[1].start_time = "05:30"
    /\ events[2].start_time = "17:59"
    /\ events[3].start_time = "11:59"
    /\ Len(ExpectedLines) = 6

\* a bucket with nothing in it between two that hold events
C14_WitnessEmptyBucket ==
    /\ pc = "events_context"
    /\ grouped_events[1].afternoon = <<>>
    /\ Len(grouped_events[1].morning) = 2
    /\ Len(grouped_events[1].evening) = 1

(***************************************************************************)
(* Properties of call sequences (SpecSession) and of the order of the      *)
(* collaborators (Spec)                                                    *)
(***************************************************************************)
\* C15: no sequence of get_recommendations, get_events,
\* get_alternative_dates and group_events_by_time calls, whatever their
\* arguments and whether they succeed or fail, changes the catalog: every
\* record, availableSpots included, is as setup left it,
\* 0 <= availableSpots <= capacity holds, and a query returns what the same
\* query returns on the catalog as set up.
C15_CallsLeaveTheCatalog ==
    /\ catalog = setup_database
    /\ \A i \in 1..Len(catalog) :
         0 <= catalog[i].available_spots
           /\ catalog[i].available_spots <= catalog[i].capacity
    /\ (pc = "agent_returned" /\ exc = None) =>
         events = get_events(setup_database, req[1].date, req[1].event_type,
                             req[1].time_of_day, req[1].max_price)
    /\ (pc = "dates_returned" /\ exc = None /\ events # <<>>) =>
         \E i \in 1..Len(setup_database) :
           /\ setup_database[i].name = req[1].event_name
           /\ events = <<setup_database[i].date>>

\* the dates of Summer Concert other than 2026-02-16 were read from the
\* catalog
C15_Witness ==
    /\ pc = "dates_returned"
    /\ req[1].event_name = "Summer Concert"
    /\ req[1].original_date = "2026-02-16"
    /\ events = <<"2026-02-15">>

\* the collaborator calls among the calls made so far
CollaboratorCalls ==
    SelectSeq(calls, LAMBDA c :
                c \in {"get_weather", "get_events", "ChatCompletion.create"})

\* C16: within one get_recommendations call the collaborators are invoked in
\* the order weather fetch, catalog query, recommendation generator, each at
\* most once, a failed call is the last one, and the generator is invoked
\* only after the weather fetch returned, the catalog query returned and its
\* result was not empty.
C16_CollaboratorsInOrder ==
    /\ \E n \in 0..3 :
         CollaboratorCalls
           = SubSeq(<<"get_weather", "get_events", "ChatCompletion.create">>, 1, n)
    /\ outcome.weather = "raised" => CollaboratorCalls = <<"get_weather">>
    /\ outcome.events \in {"connect_failed", "execute_failed"}
         => CollaboratorCalls = <<"get_weather", "get_events">>
    /\ "ChatCompletion.create" \in Range(calls) =>
         /\ outcome.weather = "returned"
         /\ outcome.events = "returned"
         /\ events # <<>>

\* the generator was called third and failed, and nothing was called again
C16_Witness ==
    /\ pc = "done"
    /\ CollaboratorCalls = <<"get_weather", "get_events", "ChatCompletion.create">>
    /\ outcome.generator = "raised"

(***************************************************************************)
(* Properties of the icon and the advice (SpecFunctions)                   *)
(***************************************************************************)
\* the condition text of the call, in lower case
Text == Lower(req[1].condition)

Has(words) == \E w \in words : Contains(Text, w)

\* the rules of the weather icon in their order
IconRules ==
    << [words |-> {"sun", "clear"}, icon |-> ":sun:"],
       [words |-> {"partly cloudy", "partly cloud"}, icon |-> ":sun_behind_cloud:"],
       [words |-> {"cloudy", "overcast"}, icon |-> ":cloud:"],
       [words |-> {"rain", "drizzle"}, icon |-> ":rain_cloud:"],
       [words |-> {"storm", "thunder"}, icon |-> ":thunder_cloud:"],
       [words |-> {"snow"}, icon |-> ":snowflake:"],
       [words |-> {"fog", "mist"}, icon |-> ":fog:"] >>

MatchingRules == {k \in 1..Len(IconRules) : Has(IconRules[k].words)}

C18_RainOverCloudsOverClear ==
    pc = "get_weather_icon" =>
      LET rain == Has({"rain", "drizzle"})
          clouds == Has({"partly cloud", "cloudy", "overcast"})
          clear == Has({"sun", "clear"})
      IN  /\ (rain /\ (clouds \/ clear)) => result = ":rain_cloud:"
          /\ (clouds /\ clear /\ ~rain)
               => result \in {":sun_behind_cloud:", ":cloud:"}

\* the four advisories on transport, by how each begins
Covered == StartsWith(transport, "Use covered transport")
AirConditioned == StartsWith(transport, "Use air-conditioned transport")
Warm == StartsWith(transport, "Dress warmly")
Pleasant == StartsWith(transport, "Weather is pleasant")

\* C19: get_transport_suggestion gives the advisory of the first matching
\* rule: rain, storm or heavy in the condition -> covered transport; hot or
\* sun and tempC > 30 -> air-conditioned transport; tempC < 15 -> warm
\* transport; otherwise pleasant weather.  A rainy condition gives covered
\* transport at every temperature, a sunny one at exactly 30 degrees the
\* pleasant advisory, and every pair gives exactly one of the four.
C19_TransportOfFirstMatchingRule ==
    pc = "get_transport_suggestion" =>
      LET t == req[1].temperature
          wet == Has({"rain", "storm", "heavy"})
          hot == Has({"hot", "sun"}) /\ t > 30
      IN  /\ Covered <=> wet
          /\ AirConditioned <=> (~wet /\ hot)
          /\ Warm <=> (~wet /\ ~hot /\ t < 15)
          /\ Pleasant <=> (~wet /\ ~hot /\ t >= 15)
          /\ Cardinality({k \in {"covered", "air-conditioned", "warm", "pleasant"} :
                            \/ k = "covered" /\ Covered
                            \/ k = "air-conditioned" /\ AirConditioned
                            \/ k = "warm" /\ Warm
                            \/ k = "pleasant" /\ Pleasant}) = 1
          /\ Has({"rain"}) => Covered
          /\ (req[1].condition = "Sunny" /\ t = 30) => Pleasant

\* sunny at exactly 30 degrees is pleasant
C19_Witness ==
    /\ pc = "get_transport_suggestion"
    /\ req[1] = [temperature |-> 30, condition |-> "Sunny"]
    /\ Pleasant

\* the items of the temperature tier
TierItems ==
    CASE req[1].temperature < 10
           -> <<"heavy jacket or coat", "warm layers", "scarf and gloves">>
      [] 10 <= req[1].temperature /\ req[1].temperature < 15
           -> <<"light jacket or sweater", "long sleeves">>
      [] 15 <= req[1].temperature /\ req[1].temperature < 25
           -> <<"light clothing", "comfortable shirt or t-shirt">>
      [] req[1].temperature >= 25
           -> <<"light, breathable clothing", "sunscreen and hat">>

RainWord == Has({"rain", "drizzle", "shower"})
SunWord == Has({"sun", "clear"})

\* C20: get_clothing_suggestion returns the items of exactly one temperature
\* tier followed by the additions of at most one condition branch: the rain
\* additions on rain, drizzle or shower, otherwise sunglasses on sun or
\* clear, otherwise nothing; a rain word and a sun word together give the
\* rain additions only, and the tier items are there for every condition.
C20_TierThenOneConditionBranch ==
    pc = "get_clothing_suggestion" =>
      /\ SubSeq(clothing, 1, Len(TierItems)) = TierItems
      /\ SubSeq(clothing, Len(TierItems) + 1, Len(clothing))
           = IF RainWord THEN <<"umbrella or raincoat", "waterproof shoes">>
             ELSE IF SunWord THEN <<"sunglasses">>
             ELSE <<>>
      /\ (RainWord /\ SunWord) => "sunglasses" \notin Range(clothing)

\* a condition with a rain word and a sun word, at the edge of the top tier
C20_Witness ==
    /\ pc = "get_clothing_suggestion"
    /\ req[1] = [temperature |-> 25, condition |-> "Sunny intervals with rain showers"]
    /\ clothing = <<"light, breathable clothing", "sunscreen and hat",
                    "umbrella or raincoat", "waterproof shoes">>

(***************************************************************************)
(* The time filter of get_events against the grouping (SpecEventAgent)     *)
(***************************************************************************)
\* start_time is two digits, a colon and two digits
ZeroPadded(row) ==
    /\ Len(row.start_time) = 5
    /\ SubSeq(row.start_time, 3, 3) = ":"
    /\ \A i \in {1, 2, 4, 5} : Digit(row.start_time, i) \in 0..9

\* get_events(date, time_of_day = b) returned, with no other filter
TimeFiltered ==
    /\ QueryReturned
    /\ req[1].time_of_day # None
    /\ req[1].time_of_day[1] \in Buckets
    /\ ~Truthy(req[1].event_type)
    /\ req[1].max_price = None

\* C21: on a catalog of zero-padded HH:MM start times, for every
\* date-matched record r and bucket b, get_events(date, time_of_day = b)
\* returns r iff group_events_by_time places r in bucket b and r starts at
\* hour 6 or later; so the three time-filtered results are pairwise
\* disjoint, grouping a time-filtered result leaves the other two buckets
\* empty, and a record starting at hour 0..5 is grouped as evening and
\* returned by no time-filtered query.
C21_TimeFilterIsGroupingFromSix ==
    (TimeFiltered /\ \A i \in 1..Len(catalog) : ZeroPadded(catalog[i])) =>
      LET b == req[1].time_of_day[1]
          dated == DateMatched(req[1])
      IN  /\ \A r \in Range(dated) :
               r \in Range(events)
                 <=> (r \in Range(group_events_by_time(dated)[b]) /\ StartHour(r) >= 6)
          /\ \A other \in Buckets \ {b} :
               Range(events) \cap Range(get_events(catalog, req[1].date, None,
                                                   Some(other), None)) = {}
          /\ grouped_events # None =>
               \A other \in Buckets \ {b} : grouped_events[1][other] = <<>>
          /\ \A r \in Range(dated) :
               StartHour(r) < 6 =>
                 /\ r \in Range(group_events_by_time(dated).evening)
                 /\ r \notin Range(events)

\* the evening query left out the 05:30 start that the grouping of the
\* day's rows puts in the evening, and its own grouping has one bucket
C21_Witness ==
    /\ TimeFiltered
    /\ req[1].time_of_day = Some("evening")
    /\ {r.start_time : r \in Range(DateMatched(req[1]))} = {"05:30", "18:00"}
    /\ {r.start_time : r \in Range(events)} = {"18:00"}
    /\ grouped_events # None

\* C22: get_events with a time_of_day outside morning, afternoon, evening
\* does not fail and does not return nothing on that account: it applies no
\* time filter and returns exactly the records returned when time_of_day is
\* absent, date, category and maxPrice being the same.
C22_UnknownTimeOfDayIsNoFilter ==
    (pc = "agent_returned" /\ calls[1] = "get_events"
       /\ req[1].time_of_day # None /\ req[1].time_of_day[1] \notin Buckets) =>
      /\ exc # None =>
           exc[1].msg \in {"unable to open database file",
                           "Database error: no such table: events"}
      /\ exc = None =>
           /\ events = get_events(catalog, req[1].date, req[1].event_type,
                                  None, req[1].max_price)
           /\ \A r \in Range(DateMatched(req[1])) :
                ((Truthy(req[1].event_type) => r.type = req[1].event_type[1])
                   /\ (req[1].max_price # None => r.price_min <= req[1].max_price[1]))
                  => r \in Range(events)

\* "night" returned a morning start and an evening start
C22_Witness ==
    /\ QueryReturned
    /\ req[1].time_of_day = Some("night")
    /\ {r.start_time : r \in Range(events)} = {"06:00", "18:00"}

====
